---- MODULE Spec2Model ----
(***************************************************************************)
(* Model of the SpurMart support-chat backend: the POST /api/chat/message  *)
(* route handler, the LLM gateway (LLMService) and the two read-only       *)
(* endpoints, over a store of Conversation and Message rows.               *)
(*                                                                         *)
(* Every `await` of the POST handler is one action, so concurrent requests *)
(* interleave exactly at the handler's suspension points.  The store       *)
(* timestamps every write with a clock that advances on each write.        *)
(***************************************************************************)
EXTENDS Integers, Sequences, FiniteSets, TLC

\* ------------------------------------------------------------------ bounds
NumReqs == 2            \* requests that can be in flight at once
MaxSeqPosts == 3        \* requests received one after the other in SpecSeq
MaxHistory == 12        \* longest history handed to generateReply in SpecGateway
MaxSends == 2           \* messages the user sends in SpecWidget
MaxSwitches == 2        \* conversations the user starts or selects in SpecWidget

\* --------------------------------------------------------------- constants
MAX_MESSAGE_LENGTH == 2000
HISTORY_WINDOW == 10

Reqs == 1..NumReqs

\* Session ids are pairs <<origin, n>>; the first two stand for an absent
\* sessionId field and for the empty string, which JavaScript treats as falsy.
Undefined == <<"undefined", 0>>
EmptyString == <<"", 0>>
ClientTokens == {<<"client", 1>>, <<"client", 2>>}
Truthy(t) == t[1] \notin {"undefined", ""}

\* Message lengths a client may send (boundaries of the schema included).
MessageLengths == {0, 1, MAX_MESSAGE_LENGTH, MAX_MESSAGE_LENGTH + 1}

\* Texts are records [kind, len]; a user message is known by its length.
UserText(n) == [kind |-> "input", len |-> n]
fallbackReply == [kind |-> "fallbackReply", len |-> 113]
Completion == [kind |-> "completion", len |-> 1]
CouldNotGenerate == [kind |-> "couldNotGenerate", len |-> 66]
EmptyReply == [kind |-> "", len |-> 0]
NoReply == [kind |-> "undefined", len |-> 0]
SYSTEM_PROMPT == [kind |-> "systemPrompt", len |-> 1]

\* What one call of the provider can do: answer with content, answer with
\* no content, fail with an APIError of some status, or fail otherwise.
ProviderOutcomes ==
    {"content", "noContent", "401", "429", "500", "502", "503", "504", "network"}

NoError == ""
ErrNotConfigured == "LLM service not configured. Please check API key."
ErrInvalidKey == "Invalid API key. Please contact support."
ErrHighDemand == "Service is experiencing high demand. Please try again in a moment."
ErrUnavailable == "Our AI service is temporarily unavailable. Please try again."
ErrGeneric == "Something went wrong. Please try again."
ErrUnexpected == "An unexpected error occurred. Please try again."
ErrEmpty == "Message cannot be empty"
ErrTooLong == "Message too long (max 2000 characters)"

VARIABLES
    configured,   \* LLMService.client !== null (OPENAI_API_KEY was set)
    convs,        \* Conversation table: row id = index
    msgs,         \* Message table: row id = index
    clock,        \* the store's now()
    minted,       \* number of crypto.randomUUID() results handed out so far
    pc,           \* per request: the await the handler is suspended at
    req,          \* per request: the handler's locals and its response
    received,     \* number of requests received so far
    reads,        \* the last answer of a read-only endpoint
    gw,           \* one call of LLMService.generateReply: arguments and result
    widget,       \* ChatWidget: its React state and localStorage
    net           \* ChatWidget: its fetches that have not been answered yet

vars == <<configured, convs, msgs, clock, minted, pc, req, received, reads, gw,
          widget, net>>

\* What the POST handler never touches.
aux == <<reads, gw, widget, net>>

store == <<convs, msgs>>

\* ------------------------------------------------------- store operations
Tokens(cs) == {cs[i].sessionId : i \in 1..Len(cs)}

\* prisma.conversation.findUnique({where: {sessionId}}): row id, or 0 for null.
FindUnique(cs, sid) ==
    IF \E i \in 1..Len(cs) : cs[i].sessionId = sid
    THEN CHOOSE i \in 1..Len(cs) : cs[i].sessionId = sid
    ELSE 0

\* (variant: the column has no unique index)
UniqueViolation_NoIndex(cs, sid) == FALSE

\* The unique index on Conversation.sessionId rejects a second row.
UniqueViolation(cs, sid) == \E i \in 1..Len(cs) : cs[i].sessionId = sid

NewConversation(sid, now) ==
    [sessionId |-> sid, createdAt |-> now, updatedAt |-> now]

NewMessage(cid, sender, text, now) ==
    [conversationId |-> cid, sender |-> sender, text |-> text, timestamp |-> now]

\* (variant: orderBy timestamp 'desc')
RECURSIVE OrderByTimestampAsc_Desc(_, _)
OrderByTimestampAsc_Desc(ms, S) ==
    IF S = {} THEN <<>>
    ELSE LET m == CHOOSE i \in S :
                    \A j \in S : \/ ms[i].timestamp > ms[j].timestamp
                                 \/ (ms[i].timestamp = ms[j].timestamp /\ i <= j)
         IN <<m>> \o OrderByTimestampAsc_Desc(ms, S \ {m})

\* Row ids in S ordered by Message.timestamp ascending (ties by row id).
RECURSIVE OrderByTimestampAsc(_, _)
OrderByTimestampAsc(ms, S) ==
    IF S = {} THEN <<>>
    ELSE LET m == CHOOSE i \in S :
                    \A j \in S : \/ ms[i].timestamp < ms[j].timestamp
                                 \/ (ms[i].timestamp = ms[j].timestamp /\ i <= j)
         IN <<m>> \o OrderByTimestampAsc(ms, S \ {m})

\* (variant: orderBy updatedAt 'asc')
RECURSIVE OrderByUpdatedAtDesc_Asc(_, _)
OrderByUpdatedAtDesc_Asc(cs, S) ==
    IF S = {} THEN <<>>
    ELSE LET m == CHOOSE i \in S :
                    \A j \in S : \/ cs[i].updatedAt < cs[j].updatedAt
                                 \/ (cs[i].updatedAt = cs[j].updatedAt /\ i <= j)
         IN <<m>> \o OrderByUpdatedAtDesc_Asc(cs, S \ {m})

\* Row ids in S ordered by Conversation.updatedAt descending (ties by row id).
RECURSIVE OrderByUpdatedAtDesc(_, _)
OrderByUpdatedAtDesc(cs, S) ==
    IF S = {} THEN <<>>
    ELSE LET m == CHOOSE i \in S :
                    \A j \in S : \/ cs[i].updatedAt > cs[j].updatedAt
                                 \/ (cs[i].updatedAt = cs[j].updatedAt /\ i <= j)
         IN <<m>> \o OrderByUpdatedAtDesc(cs, S \ {m})

MessageIdsOf(ms, cid) == {i \in 1..Len(ms) : ms[i].conversationId = cid}

\* prisma.message.findMany({where: {conversationId}, orderBy: {timestamp: 'asc'}})
MessagesOf(ms, cid) ==
    LET ids == OrderByTimestampAsc(ms, MessageIdsOf(ms, cid))
    IN [k \in 1..Len(ids) |-> ms[ids[k]]]

\* ----------------------------------------------------------- LLM gateway
formatHistory(messages) ==
    [k \in 1..Len(messages) |->
        [role |-> IF messages[k].sender = "user" THEN "user" ELSE "assistant",
         content |-> messages[k].text]]

\* (variant: slice(0, n))
SliceLast_First(s, n) == IF Len(s) <= n THEN s ELSE SubSeq(s, 1, n)

\* Array.prototype.slice(-n)
SliceLast(s, n) == IF Len(s) <= n THEN s ELSE SubSeq(s, Len(s) - n + 1, Len(s))

ChatRequest(history, userMessage) ==
    <<[role |-> "system", content |-> SYSTEM_PROMPT]>>
        \o SliceLast(formatHistory(history), HISTORY_WINDOW)
        \o <<[role |-> "user", content |-> userMessage]>>

\* The catch block of generateReply: the error sentence for a failed call.
ErrorFor(outcome) ==
    IF outcome = "401" THEN ErrInvalidKey
    ELSE IF outcome = "429" THEN ErrHighDemand
    ELSE IF outcome \in {"500", "502", "503"} THEN ErrUnavailable
    ELSE ErrGeneric

\* generateReply(history, userMessage) when the provider call ends in `outcome`.
generateReply(client, history, userMessage, outcome) ==
    IF ~client
    THEN [reply |-> EmptyReply, error |-> ErrNotConfigured, request |-> <<>>]
    ELSE IF outcome = "content"
    THEN [reply |-> Completion, error |-> NoError,
          request |-> ChatRequest(history, userMessage)]
    ELSE IF outcome = "noContent"
    THEN [reply |-> CouldNotGenerate, error |-> NoError,
          request |-> ChatRequest(history, userMessage)]
    ELSE [reply |-> EmptyReply, error |-> ErrorFor(outcome),
          request |-> ChatRequest(history, userMessage)]

isConfigured == configured

\* ------------------------------------------------------------ ChatWidget
\* useState<string | null>(null), localStorage.getItem(...) === null
Null == <<"null", 0>>

\* A message of the transcript. `conv` is not a field of the code's Message:
\* it records the session whose conversation the message is part of.
WidgetMessage(id, sender, text, conv) ==
    [id |-> id, sender |-> sender, text |-> text, conv |-> conv]

\* State after the first render; `stored` is localStorage.chatCurrentSessionId.
\* The counters number the crypto.randomUUID() results and the user's actions.
FreshWidget(stored) ==
    [mounted |-> FALSE, messages |-> <<>>, isLoading |-> FALSE, isTyping |-> FALSE,
     currentSessionId |-> Null, error |-> NoError, stored |-> stored,
     ids |-> 0, sessions |-> 0, mints |-> 0, sent |-> 0, switches |-> 0]

NoFetch == [sends |-> {}, loads |-> {}]

\* Conversations the sidebar can list: of this browser or of any other.
Listed == {<<"uuid", 1>>, <<"other", 1>>}

\* What a failed send shows: data.error of a non-2xx answer, the default
\* sentence when it has none, or the message of a rejected fetch.
ErrSendDefault == "Failed to send message"
ErrFetch == "Failed to fetch"
SendErrors ==
    {ErrTooLong, ErrInvalidKey, ErrHighDemand, ErrUnavailable, ErrGeneric,
     ErrUnexpected, ErrSendDefault, ErrFetch}

\* Replies a 200 answer can carry.
Replies == {Completion, fallbackReply}

\* What GET history can answer for a session: none, one or two stored rows.
HistoryAnswers(sid) ==
    {<<>>,
     <<WidgetMessage(<<"row", 1>>, "USER", UserText(1), sid)>>,
     <<WidgetMessage(<<"row", 1>>, "USER", UserText(1), sid),
       WidgetMessage(<<"row", 2>>, "AI", Completion, sid)>>}

\* if (!trimmedInput || isLoading) return;
\* (variant: the isLoading test is missing)
CanSend_Unguarded(w, trimmedInput) == trimmedInput.len > 0

CanSend(w, trimmedInput) == trimmedInput.len > 0 /\ ~w.isLoading

\* (variant: the transcript is cleared)
Rollback_Clear(messages, id) == <<>>

\* prev.filter((msg) => msg.id !== userMessage.id)
Rollback(messages, id) ==
    LET keep(m) == m.id # id IN SelectSeq(messages, keep)

\* generateReply as a function of its arguments: histories of 0..MaxHistory
\* turns with pairwise different texts, alternating senders in the store's
\* vocabulary or in lower case.
Senders == {<<"USER", "AI">>, <<"user", "ai">>}

HistoryOf(n, names) ==
    [k \in 1..n |-> [sender |-> names[2 - (k % 2)],
                     text |-> [kind |-> "turn", len |-> k]]]

Histories == {HistoryOf(n, names) : n \in 0..MaxHistory, names \in Senders}

NoResult == [reply |-> NoReply, error |-> NoError, request |-> <<>>]

NoCall == [history |-> <<>>, userMessage |-> NoReply, outcome |-> "",
           called |-> FALSE, result |-> NoResult]

\* --------------------------------------------------- read-only endpoints
\* GET /api/chat/conversations: newest update first, with count and first text.
GET_conversations(cs, ms) ==
    LET ids == OrderByUpdatedAtDesc(cs, 1..Len(cs))
    IN [k \in 1..Len(ids) |->
          [id |-> ids[k],
           sessionId |-> cs[ids[k]].sessionId,
           createdAt |-> cs[ids[k]].createdAt,
           updatedAt |-> cs[ids[k]].updatedAt,
           messageCount |-> Cardinality(MessageIdsOf(ms, ids[k])),
           firstMessage |-> IF MessageIdsOf(ms, ids[k]) = {}
                            THEN [kind |-> "New conversation", len |-> 16]
                            ELSE MessagesOf(ms, ids[k])[1].text]]

ErrSessionRequired == "Session ID is required"
ErrNotAString == "Invalid input: expected string, received null"

\* include: {messages: {orderBy: {timestamp: 'asc'}, select: {id, sender, text, timestamp}}}
HistoryRows(ms, cid) ==
    LET ids == OrderByTimestampAsc(ms, MessageIdsOf(ms, cid))
    IN [k \in 1..Len(ids) |->
          [id |-> ids[k], sender |-> ms[ids[k]].sender,
           text |-> ms[ids[k]].text, timestamp |-> ms[ids[k]].timestamp]]

\* (variant: an unknown session is answered 404)
UnknownSession_NotFound(sid) ==
    [status |-> 404, messages |-> <<>>, sessionId |-> Undefined,
     error |-> "Conversation not found"]

\* if (!conversation) return NextResponse.json({messages: [], sessionId})
UnknownSession(sid) ==
    [status |-> 200, messages |-> <<>>, sessionId |-> sid, error |-> NoError]

\* GET /api/chat/history?sessionId=sid
GET_history(cs, ms, sid) ==
    IF ~Truthy(sid)
    THEN [status |-> 400, messages |-> <<>>, sessionId |-> Undefined,
          error |-> IF sid = EmptyString THEN ErrSessionRequired ELSE ErrNotAString]
    ELSE LET c == FindUnique(cs, sid)
         IN IF c = 0
            THEN UnknownSession(sid)
            ELSE [status |-> 200, messages |-> HistoryRows(ms, c),
                  sessionId |-> cs[c].sessionId, error |-> NoError]

NoRead == [endpoint |-> "", query |-> Undefined, answer |-> <<>>]

\* -------------------------------------------------------- POST handler
NoBody == [reply |-> NoReply, sessionId |-> Undefined, error |-> NoError]

FreshReq ==
    [message |-> UserText(0), sessionId |-> Undefined, conversation |-> 0,
     history |-> <<>>, reply |-> NoReply, llmRequest |-> <<>>,
     status |-> 0, body |-> NoBody,
     \* bookkeeping about the request, not read by the handler
     trace |-> <<>>, found |-> FALSE, created |-> FALSE,
     userMsg |-> 0, aiMsg |-> 0]

InFlight(q) == pc[q] \notin {"idle", "done"}

Init ==
    /\ configured \in BOOLEAN
    /\ convs = <<>>
    /\ msgs = <<>>
    /\ clock = 0
    /\ minted = 0
    /\ pc = [p \in Reqs |-> "idle"]
    /\ req = [p \in Reqs |-> FreshReq]
    /\ received = 0
    /\ reads = NoRead
    /\ gw = NoCall
    /\ widget = FreshWidget(Null)
    /\ net = NoFetch

\* Session ids a client can put in a request: none, the empty string, one it
\* generated itself, or one the server minted earlier.
Suppliable == {Undefined, EmptyString} \cup ClientTokens
                \cup {<<"uuid", i>> : i \in 1..minted}

Respond(r, status, body) == [r EXCEPT !.status = status, !.body = body]

\* (variant: the success response leaves the session id out)
SuccessBody_NoSession(reply, sid) == [NoBody EXCEPT !.reply = reply]

\* NextResponse.json({reply, sessionId})
SuccessBody(reply, sid) == [NoBody EXCEPT !.reply = reply, !.sessionId = sid]

\* NextResponse.json({error}, {status})
ErrorBody(error) == [NoBody EXCEPT !.error = error]

\* (variant: the error is not checked and the empty reply is answered)
GatewayErrorResponse_Unchecked(r, error) == Respond(r, 200, SuccessBody(r.reply, Undefined))

\* if (error) return NextResponse.json({error}, {status: 500})
GatewayErrorResponse(r, error) == Respond(r, 500, ErrorBody(error))

\* (variant: the upper limit is exclusive)
ValidMessage_Exclusive(n) == n >= 1 /\ n < MAX_MESSAGE_LENGTH

\* messageSchema.safeParse(body).success
ValidMessage(n) == n >= 1 /\ n <= MAX_MESSAGE_LENGTH

ValidationError(n) == IF n < 1 THEN ErrEmpty ELSE ErrTooLong

\* A request arrives with a message of n characters and session id sid; the
\* handler validates it and either answers 400 or goes on to the lookup.
POST_Validate(p, n, sid) ==
    /\ ~InFlight(p)
    /\ received' = received + 1
    /\ LET r == [FreshReq EXCEPT !.message = UserText(n), !.sessionId = sid]
       IN IF ValidMessage(n)
          THEN /\ req' = [req EXCEPT ![p] = r]
               /\ pc' = [pc EXCEPT ![p] = "find"]
          ELSE /\ req' = [req EXCEPT ![p] =
                            Respond(r, 400, ErrorBody(ValidationError(n)))]
               /\ pc' = [pc EXCEPT ![p] = "done"]
    /\ UNCHANGED <<aux, configured, convs, msgs, clock, minted>>

\* if (sessionId) conversation = await findUnique(...)
POST_FindConversation(p) ==
    /\ pc[p] = "find"
    /\ LET c == IF Truthy(req[p].sessionId)
                THEN FindUnique(convs, req[p].sessionId) ELSE 0
       IN /\ req' = [req EXCEPT ![p].conversation = c, ![p].found = (c # 0)]
          /\ pc' = [pc EXCEPT ![p] = IF c = 0 THEN "create" ELSE "saveUser"]
    /\ UNCHANGED <<aux, configured, convs, msgs, clock, minted, received>>

\* (variant: the supplied session id is ignored and a new one is always minted)
NewSessionId_AlwaysMint(sid, n) == <<"uuid", n + 1>>

\* const newSessionId = sessionId || crypto.randomUUID()
NewSessionId(sid, n) == IF Truthy(sid) THEN sid ELSE <<"uuid", n + 1>>

\* conversation = await prisma.conversation.create(...); a violation of the
\* unique index throws and the handler's catch answers the generic 500.
POST_CreateConversation(p) ==
    /\ pc[p] = "create"
    /\ LET newSessionId == NewSessionId(req[p].sessionId, minted)
       IN /\ minted' = IF Truthy(req[p].sessionId) THEN minted ELSE minted + 1
          /\ IF UniqueViolation(convs, newSessionId)
             THEN /\ req' = [req EXCEPT ![p] =
                               Respond(@, 500, ErrorBody(ErrUnexpected))]
                  /\ pc' = [pc EXCEPT ![p] = "done"]
                  /\ UNCHANGED <<convs, clock>>
             ELSE /\ clock' = clock + 1
                  /\ convs' = Append(convs, NewConversation(newSessionId, clock'))
                  /\ req' = [req EXCEPT ![p].conversation = Len(convs) + 1,
                                        ![p].created = TRUE]
                  /\ pc' = [pc EXCEPT ![p] = "saveUser"]
    /\ UNCHANGED <<aux, configured, msgs, received>>

\* await prisma.message.create({sender: 'USER', text: message})
\* (variant: the user turn is not written)
POST_SaveUserMessage_Skipped(p) ==
    /\ pc[p] = "saveUser"
    /\ pc' = [pc EXCEPT ![p] = "history"]
    /\ UNCHANGED <<aux, configured, convs, msgs, clock, minted, received, req>>

POST_SaveUserMessage(p) ==
    /\ pc[p] = "saveUser"
    /\ clock' = clock + 1
    /\ msgs' = Append(msgs, NewMessage(req[p].conversation, "USER", req[p].message, clock'))
    /\ req' = [req EXCEPT ![p].userMsg = Len(msgs) + 1,
                          ![p].trace = Append(@, "userWrite")]
    /\ pc' = [pc EXCEPT ![p] = "history"]
    /\ UNCHANGED <<aux, configured, convs, minted, received>>

\* const history = await prisma.message.findMany(... select sender, text)
POST_GetHistory(p) ==
    /\ pc[p] = "history"
    /\ LET rows == MessagesOf(msgs, req[p].conversation)
       IN req' = [req EXCEPT ![p].history =
                      [k \in 1..Len(rows) |-> [sender |-> rows[k].sender, text |-> rows[k].text]],
                    ![p].trace = Append(@, "historyRead")]
    /\ pc' = [pc EXCEPT ![p] = "generate"]
    /\ UNCHANGED <<aux, configured, convs, msgs, clock, minted, received>>

\* if (!llmService.isConfigured()): store the fallback sentence and answer it.
POST_Fallback(p) ==
    /\ pc[p] = "generate"
    /\ ~isConfigured
    /\ clock' = clock + 1
    /\ msgs' = Append(msgs, NewMessage(req[p].conversation, "AI", fallbackReply, clock'))
    /\ req' = [req EXCEPT ![p] =
                 Respond([@ EXCEPT !.aiMsg = Len(msgs) + 1,
                                   !.trace = Append(@, "assistantWrite")],
                         200,
                         SuccessBody(fallbackReply,
                                     convs[req[p].conversation].sessionId))]
    /\ pc' = [pc EXCEPT ![p] = "done"]
    /\ UNCHANGED <<aux, configured, convs, minted, received>>

\* const {reply, error} = await llmService.generateReply(history, message);
\* if (error) answer 500 with it.
POST_GenerateReply(p, outcome) ==
    /\ pc[p] = "generate"
    /\ isConfigured
    /\ LET res == generateReply(configured, req[p].history, req[p].message, outcome)
           r == [req[p] EXCEPT !.reply = res.reply, !.llmRequest = res.request,
                               !.trace = Append(@, "gatewayCall")]
       IN IF res.error # NoError
          THEN /\ req' = [req EXCEPT ![p] = GatewayErrorResponse(r, res.error)]
               /\ pc' = [pc EXCEPT ![p] = "done"]
          ELSE /\ req' = [req EXCEPT ![p] = r]
               /\ pc' = [pc EXCEPT ![p] = "saveReply"]
    /\ UNCHANGED <<aux, configured, convs, msgs, clock, minted, received>>

\* (variant: the stored assistant text is not the reply)
POST_SaveReply_OtherText(p) ==
    /\ pc[p] = "saveReply"
    /\ clock' = clock + 1
    /\ msgs' = Append(msgs, NewMessage(req[p].conversation, "AI", CouldNotGenerate, clock'))
    /\ req' = [req EXCEPT ![p].aiMsg = Len(msgs) + 1,
                          ![p].trace = Append(@, "assistantWrite")]
    /\ pc' = [pc EXCEPT ![p] = "touch"]
    /\ UNCHANGED <<aux, configured, convs, minted, received>>

\* await prisma.message.create({sender: 'AI', text: reply})
POST_SaveReply(p) ==
    /\ pc[p] = "saveReply"
    /\ clock' = clock + 1
    /\ msgs' = Append(msgs, NewMessage(req[p].conversation, "AI", req[p].reply, clock'))
    /\ req' = [req EXCEPT ![p].aiMsg = Len(msgs) + 1,
                          ![p].trace = Append(@, "assistantWrite")]
    /\ pc' = [pc EXCEPT ![p] = "touch"]
    /\ UNCHANGED <<aux, configured, convs, minted, received>>

\* await prisma.conversation.update({data: {updatedAt: new Date()}}); answer.
POST_UpdateTimestamp(p) ==
    /\ pc[p] = "touch"
    /\ clock' = clock + 1
    /\ convs' = [convs EXCEPT ![req[p].conversation].updatedAt = clock']
    /\ req' = [req EXCEPT ![p] =
                 Respond([@ EXCEPT !.trace = Append(@, "timestampBump")],
                         200,
                         SuccessBody(req[p].reply,
                                     convs[req[p].conversation].sessionId))]
    /\ pc' = [pc EXCEPT ![p] = "done"]
    /\ UNCHANGED <<aux, configured, msgs, minted, received>>

Handle(p) ==
    \/ POST_FindConversation(p)
    \/ POST_CreateConversation(p)
    \/ POST_SaveUserMessage(p)
    \/ POST_GetHistory(p)
    \/ POST_Fallback(p)
    \/ \E outcome \in ProviderOutcomes : POST_GenerateReply(p, outcome)
    \/ POST_SaveReply(p)
    \/ POST_UpdateTimestamp(p)

\* Spec: NumReqs requests, in flight together in any interleaving.
Receive ==
    \E n \in MessageLengths, sid \in Suppliable :
        received < NumReqs /\ POST_Validate(received + 1, n, sid)

Next == Receive \/ \E p \in Reqs : Handle(p)

Spec == Init /\ [][Next]_vars

\* SpecSeq: MaxSeqPosts valid requests of clients that bring their own
\* session id, each received after the one before it was answered.
ReceiveSeq ==
    \E sid \in ClientTokens :
        /\ received < MaxSeqPosts
        /\ \A q \in Reqs : ~InFlight(q)
        /\ POST_Validate(1, 1, sid)

NextSeq == ReceiveSeq \/ Handle(1)

SpecSeq == Init /\ [][NextSeq]_vars

\* The two read-only endpoints, called at any moment between requests.
GET_History(sid) ==
    /\ reads' = [endpoint |-> "history", query |-> sid,
                 answer |-> GET_history(convs, msgs, sid)]
    /\ UNCHANGED <<configured, convs, msgs, clock, minted, pc, req, received, gw,
                   widget, net>>

GET_Conversations ==
    /\ reads' = [endpoint |-> "conversations", query |-> Undefined,
                 answer |-> GET_conversations(convs, msgs)]
    /\ UNCHANGED <<configured, convs, msgs, clock, minted, pc, req, received, gw,
                   widget, net>>

\* SpecRead: the requests of SpecSeq, with reads of both endpoints in between.
NextRead ==
    \/ NextSeq
    \/ \E sid \in {Undefined, EmptyString} \cup ClientTokens : GET_History(sid)
    \/ GET_Conversations

SpecRead == Init /\ [][NextRead]_vars

\* SpecGateway: one call of generateReply on arguments chosen beforehand.
InitGateway ==
    /\ configured \in BOOLEAN
    /\ convs = <<>> /\ msgs = <<>> /\ clock = 0 /\ minted = 0
    /\ pc = [p \in Reqs |-> "idle"]
    /\ req = [p \in Reqs |-> FreshReq]
    /\ received = 0
    /\ reads = NoRead
    /\ gw \in [history : Histories,
                userMessage : {UserText(1), UserText(MAX_MESSAGE_LENGTH)},
                outcome : ProviderOutcomes,
                called : {FALSE}, result : {NoResult}]
    /\ widget = FreshWidget(Null)
    /\ net = NoFetch

GW_generateReply ==
    /\ ~gw.called
    /\ gw' = [gw EXCEPT !.called = TRUE,
                        !.result = generateReply(configured, gw.history,
                                                 gw.userMessage, gw.outcome)]
    /\ UNCHANGED <<configured, convs, msgs, clock, minted, pc, req, received, reads,
                   widget, net>>

SpecGateway == InitGateway /\ [][GW_generateReply]_vars

\* SpecWidget: one ChatWidget against a server whose answers are inputs.
server == <<configured, convs, msgs, clock, minted, pc, req, received, reads, gw>>

InitWidget ==
    /\ configured \in BOOLEAN
    /\ convs = <<>> /\ msgs = <<>> /\ clock = 0 /\ minted = 0
    /\ pc = [p \in Reqs |-> "idle"]
    /\ req = [p \in Reqs |-> FreshReq]
    /\ received = 0
    /\ reads = NoRead
    /\ gw = NoCall
    /\ widget \in {FreshWidget(stored) : stored \in {Null, <<"uuid", 1>>}}
    /\ net = NoFetch

\* useEffect(() => {...}, []): resume the stored session and load its history.
W_Mount ==
    /\ ~widget.mounted
    /\ IF widget.stored # Null
       THEN /\ widget' = [widget EXCEPT !.mounted = TRUE,
                                        !.currentSessionId = widget.stored]
            /\ net' = [net EXCEPT !.loads = @ \cup {widget.stored}]
       ELSE /\ widget' = [widget EXCEPT !.mounted = TRUE]
            /\ UNCHANGED net
    /\ UNCHANGED server

\* sendMessage up to its fetch. The send remembers the id of its optimistic
\* message and the currentSessionId of the render it was started from.
W_SendMessage(trimmedInput) ==
    /\ widget.mounted
    /\ widget.sent < MaxSends
    /\ CanSend(widget, trimmedInput)
    /\ LET id == <<"msg", widget.ids + 1>>
           anonymous == widget.currentSessionId = Null
           conv == IF anonymous THEN <<"uuid", widget.mints + 2>>  \* not <<"uuid", 1>>
                   ELSE widget.currentSessionId
       IN /\ widget' = [widget EXCEPT
                !.error = NoError,
                !.messages = Append(@, WidgetMessage(id, "USER", trimmedInput, conv)),
                !.isLoading = TRUE, !.isTyping = TRUE,
                !.ids = @ + 1, !.sent = @ + 1,
                !.mints = IF anonymous THEN @ + 1 ELSE @]
          /\ net' = [net EXCEPT !.sends = @ \cup
                {[userMessage |-> id, currentSessionId |-> widget.currentSessionId,
                  conv |-> conv]}]
    /\ UNCHANGED server

\* The fetch of send s is answered 2xx with {reply, sessionId}.
W_SendOk(s, reply) ==
    /\ s \in net.sends
    /\ LET id == <<"msg", widget.ids + 1>>
           adopt == s.currentSessionId = Null
       IN widget' = [widget EXCEPT
                !.currentSessionId = IF adopt THEN s.conv ELSE @,
                !.stored = IF adopt THEN s.conv ELSE @,
                !.messages = Append(@, WidgetMessage(id, "AI", reply, s.conv)),
                !.ids = @ + 1,
                !.isLoading = FALSE, !.isTyping = FALSE]
    /\ net' = [net EXCEPT !.sends = @ \ {s}]
    /\ UNCHANGED server

\* The fetch of send s is answered non-2xx, or is rejected.
W_SendFail(s, err) ==
    /\ s \in net.sends
    /\ widget' = [widget EXCEPT
            !.error = err,
            !.messages = Rollback(@, s.userMessage),
            !.isLoading = FALSE, !.isTyping = FALSE]
    /\ net' = [net EXCEPT !.sends = @ \ {s}]
    /\ UNCHANGED server

W_StartNewConversation ==
    /\ widget.mounted
    /\ widget.switches < MaxSwitches
    /\ LET newSessionId == <<"client", widget.sessions + 1>>
       IN widget' = [widget EXCEPT
                !.currentSessionId = newSessionId, !.stored = newSessionId,
                !.messages = <<>>, !.error = NoError,
                !.sessions = @ + 1, !.switches = @ + 1]
    /\ UNCHANGED <<server, net>>

W_SelectConversation(sessionId) ==
    /\ widget.mounted
    /\ widget.switches < MaxSwitches
    /\ widget' = [widget EXCEPT
            !.currentSessionId = sessionId, !.stored = sessionId,
            !.error = NoError, !.switches = @ + 1]
    /\ net' = [net EXCEPT !.loads = @ \cup {sessionId}]
    /\ UNCHANGED server

\* loadHistory(sid) after its fetch: if (response.ok) setMessages(data.messages)
W_HistoryOk(sid, rows) ==
    /\ sid \in net.loads
    /\ widget' = [widget EXCEPT !.messages = rows]
    /\ net' = [net EXCEPT !.loads = @ \ {sid}]
    /\ UNCHANGED server

\* loadHistory(sid) when the answer is not ok or the fetch is rejected.
W_HistoryFail(sid) ==
    /\ sid \in net.loads
    /\ net' = [net EXCEPT !.loads = @ \ {sid}]
    /\ UNCHANGED <<server, widget>>

NextWidget ==
    \/ W_Mount
    \/ W_SendMessage(UserText(1))
    \/ \E s \in net.sends : \E reply \in Replies : W_SendOk(s, reply)
    \/ \E s \in net.sends : \E err \in SendErrors : W_SendFail(s, err)
    \/ W_StartNewConversation
    \/ \E sessionId \in Listed : W_SelectConversation(sessionId)
    \/ \E sid \in net.loads : \E rows \in HistoryAnswers(sid) : W_HistoryOk(sid, rows)
    \/ \E sid \in net.loads : W_HistoryFail(sid)

SpecWidget == InitWidget /\ [][NextWidget]_vars

\* ------------------------------------------------------------ properties
Done(p) == pc[p] = "done"
Resolved(p) == pc[p] \notin {"idle", "find", "create"}
Valid(p) == pc[p] # "idle" /\ ValidMessage(req[p].message.len)
TokenOf(p) == convs[req[p].conversation].sessionId
GatewayErrors == {ErrInvalidKey, ErrHighDemand, ErrUnavailable, ErrGeneric}

\* The request lost the creation race: generic 500, nothing written.
LostRace(p) ==
    /\ Done(p) /\ req[p].status = 500 /\ req[p].body = ErrorBody(ErrUnexpected)
    /\ req[p].conversation = 0 /\ ~req[p].created
    /\ req[p].userMsg = 0 /\ req[p].aiMsg = 0 /\ req[p].trace = <<>>

\* Every row of the store was written by one of the requests of Spec.
Accounted ==
    /\ Len(convs) = Cardinality({p \in Reqs : req[p].created})
    /\ Len(msgs) = Cardinality({p \in Reqs : req[p].userMsg # 0})
                     + Cardinality({p \in Reqs : req[p].aiMsg # 0})

\* C1 (as stated): a request whose session id matches a conversation reuses
\* it and creates none; every other valid request gets a conversation created
\* under a token the server minted.
C1_AsStated ==
    \A p \in Reqs : Valid(p) /\ Resolved(p) =>
        IF req[p].found
        THEN ~req[p].created /\ TokenOf(p) = req[p].sessionId
        ELSE req[p].created /\ TokenOf(p)[1] = "uuid"
                            /\ TokenOf(p) # req[p].sessionId

\* C1 (amended): a matching non-empty session id reuses its conversation and
\* creates none; with no session id (or the empty string) the conversation is
\* created under a minted token; a non-empty session id that matched no
\* conversation gets the conversation created under the SUPPLIED id, nothing
\* is minted, and if a concurrent request created that conversation after the
\* lookup the create is rejected and the request ends with the generic 500.
C1_Resolution ==
    /\ Accounted
    /\ \A p \in Reqs : Valid(p) /\ Resolved(p) =>
        IF req[p].found
        THEN /\ Truthy(req[p].sessionId)
             /\ ~req[p].created
             /\ TokenOf(p) = req[p].sessionId
        ELSE IF Truthy(req[p].sessionId)
        THEN \/ req[p].created /\ TokenOf(p) = req[p].sessionId
             \/ LostRace(p) /\ req[p].sessionId \in Tokens(convs)
        ELSE /\ req[p].created
             /\ TokenOf(p)[1] = "uuid"
             /\ TokenOf(p)[2] \in 1..minted

\* A conversation was created under a client's own id and then reused.
C1_Witness ==
    \E p, q \in Reqs :
        /\ Done(p) /\ Done(q)
        /\ req[p].sessionId \in ClientTokens /\ req[q].sessionId = req[p].sessionId
        /\ ~req[p].found /\ req[p].created /\ TokenOf(p) = req[p].sessionId
        /\ req[q].found /\ ~req[q].created /\ req[q].conversation = req[p].conversation

\* C2 (as stated): every answer to a valid message sent without a session id
\* carries a fresh non-empty session id, whatever the gateway did.
C2_AsStated ==
    \A p \in Reqs : Done(p) /\ Valid(p) /\ ~Truthy(req[p].sessionId) =>
        /\ Truthy(req[p].body.sessionId)
        /\ \A i \in 1..Len(convs) :
              i # req[p].conversation => convs[i].sessionId # req[p].body.sessionId

\* C2 (amended): a valid message sent without a session id always gets a
\* conversation under a newly minted, non-empty id that no other conversation
\* has; a success response (LLM reply or fallback) carries that id, and when
\* the gateway returns an error the 500 response carries the error only.
C2_Minted ==
    \A p \in Reqs : Valid(p) /\ Resolved(p) /\ ~Truthy(req[p].sessionId) =>
        /\ req[p].created
        /\ Truthy(TokenOf(p))
        /\ \A i \in 1..Len(convs) :
              i # req[p].conversation => convs[i].sessionId # TokenOf(p)
        /\ Done(p) =>
              \/ req[p].status = 200 /\ req[p].body.sessionId = TokenOf(p)
              \/ /\ req[p].status = 500
                 /\ req[p].body.sessionId = Undefined
                 /\ req[p].body.error \in GatewayErrors

\* A second conversation was minted and its id returned.
C2_Witness ==
    \E p \in Reqs :
        /\ Done(p) /\ ~Truthy(req[p].sessionId) /\ req[p].status = 200
        /\ req[p].body.sessionId[1] = "uuid"
        /\ req[p].conversation = 2

\* C3: a message is accepted exactly when its length is 1..2000; a rejected
\* one is answered 400 and no row of the store comes from it.
C3_Validation ==
    /\ Accounted
    /\ \A p \in Reqs : pc[p] # "idle" =>
        /\ (req[p].status = 400) <=>
              (req[p].message.len < 1 \/ req[p].message.len > 2000)
        /\ req[p].status = 400 =>
              /\ Done(p)
              /\ req[p].body.error \in {ErrEmpty, ErrTooLong}
              /\ ~req[p].created /\ req[p].conversation = 0
              /\ req[p].userMsg = 0 /\ req[p].aiMsg = 0 /\ req[p].trace = <<>>

\* A message of 2001 characters was rejected next to one of 2000 that was
\* accepted and stored.
C3_Witness ==
    \E p, q \in Reqs :
        /\ req[p].status = 400 /\ req[p].message.len = 2001
        /\ req[q].status = 200 /\ req[q].message.len = 2000
        /\ Len(msgs) = 2

\* C4 (as stated): without a credential every valid POST answers 200 with
\* the fallback sentence, and its conversation then holds the user turn and
\* the fallback sentence as an assistant turn.
C4_AsStated ==
    ~configured =>
        \A p \in Reqs : Done(p) /\ Valid(p) =>
            /\ req[p].status = 200
            /\ req[p].body.reply = fallbackReply
            /\ \E i, j \in MessageIdsOf(msgs, req[p].conversation) :
                  /\ msgs[i].sender = "USER" /\ msgs[i].text = req[p].message
                  /\ msgs[j].sender = "AI" /\ msgs[j].text = fallbackReply

\* C5: when the gateway returns a categorized error the answer is 500 with
\* that error, the request's user turn is in the store and the request
\* wrote no assistant turn.
C5_GatewayError ==
    /\ Accounted
    /\ \A p \in Reqs :
          Done(p) /\ req[p].trace # <<>>
                  /\ req[p].trace[Len(req[p].trace)] = "gatewayCall" =>
            /\ req[p].status = 500
            /\ req[p].body.error \in GatewayErrors
            /\ req[p].body.reply = NoReply
            /\ req[p].userMsg \in 1..Len(msgs)
            /\ msgs[req[p].userMsg].conversationId = req[p].conversation
            /\ msgs[req[p].userMsg].sender = "USER"
            /\ msgs[req[p].userMsg].text = req[p].message
            /\ req[p].aiMsg = 0

\* The gateway failed for a request whose user turn is the only row of its
\* conversation.
C5_Witness ==
    \E p \in Reqs :
        /\ Done(p) /\ req[p].status = 500 /\ req[p].body.error = ErrHighDemand
        /\ req[p].userMsg # 0
        /\ MessageIdsOf(msgs, req[p].conversation) = {req[p].userMsg}

SideEffectOrder ==
    <<"userWrite", "historyRead", "gatewayCall", "assistantWrite", "timestampBump">>

IsPrefix(s, t) == Len(s) <= Len(t) /\ s = SubSeq(t, 1, Len(s))

\* C6 (as stated): the side effects of one request happen in exactly the
\* order user write, history read, gateway call, assistant write, timestamp
\* update, and a request answered with success has performed all five.
C6_AsStated ==
    \A p \in Reqs :
        /\ IsPrefix(req[p].trace, SideEffectOrder)
        /\ Done(p) /\ req[p].status = 200 => req[p].trace = SideEffectOrder

\* C7: no two conversations have the same session token.
C7_UniqueTokens ==
    \A i, j \in 1..Len(convs) : i # j => convs[i].sessionId # convs[j].sessionId

\* The unique index rejected a second row for a token that is in the store.
C7_Witness ==
    \E p \in Reqs : LostRace(p) /\ req[p].sessionId \in Tokens(convs)

\* Both requests looked their shared session id up and found no row.
BothFoundNone(p, q) ==
    /\ p # q
    /\ Truthy(req[p].sessionId) /\ req[q].sessionId = req[p].sessionId
    /\ Valid(p) /\ Valid(q)
    /\ Resolved(p) /\ Resolved(q)
    /\ ~req[p].found /\ ~req[q].found

\* C8 (as stated): two concurrent requests with the same unknown session
\* token that both find no row each create a conversation.
C8_AsStated ==
    \A p, q \in Reqs : BothFoundNone(p, q) => req[p].created /\ req[q].created

\* C8 (amended): concurrent requests with the same unknown session token can
\* all find no row and all attempt the create; exactly one create succeeds,
\* the unique index rejects every other and each rejected request ends with
\* the generic 500 having written nothing.
C8_Race ==
    \A p, q \in Reqs : BothFoundNone(p, q) =>
        /\ ~(req[p].created /\ req[q].created)
        /\ ~req[p].created => LostRace(p)
        /\ ~req[q].created => LostRace(q)
        /\ \E r \in Reqs : /\ req[r].sessionId = req[p].sessionId
                           /\ ~req[r].found /\ req[r].created

\* Both found no row; the first created the conversation, the second lost.
C8_Witness ==
    \E p, q \in Reqs :
        /\ BothFoundNone(p, q)
        /\ req[p].created /\ TokenOf(p) = req[p].sessionId
        /\ LostRace(q)

AssistantTurns(cid) == {i \in MessageIdsOf(msgs, cid) : msgs[i].sender = "AI"}
UserTurns(cid) == {i \in MessageIdsOf(msgs, cid) : msgs[i].sender = "USER"}

\* Two messages were sent in the session of conversation 1 and then one in
\* the session of conversation 2, starting from an empty store.
TwoThenOne ==
    /\ received = 3
    /\ \A q \in Reqs : ~InFlight(q)
    /\ Len(convs) = 2
    /\ Cardinality(UserTurns(1)) = 2
    /\ Cardinality(UserTurns(2)) = 1
    /\ \A i \in MessageIdsOf(msgs, 1) : msgs[i].timestamp < convs[2].createdAt

\* C9 (as stated): the listing then returns s2 before s1 with messageCount 1
\* for s2 and 2 for s1.
C9_AsStated ==
    TwoThenOne =>
        LET l == GET_conversations(convs, msgs)
        IN /\ Len(l) = 2
           /\ l[1].sessionId = convs[2].sessionId
           /\ l[2].sessionId = convs[1].sessionId
           /\ l[1].messageCount = 1
           /\ l[2].messageCount = 2

\* C9 (amended): the listing then returns s2 before s1; messageCount counts
\* user and assistant turns alike, so it is 1 for s2 and 2 for s1 plus the
\* number of sends that were answered: 2 and 4 when every send was answered
\* (always so without a credential), 1 and 2 only when every gateway call
\* failed.
C9_Listing ==
    TwoThenOne =>
        LET l == GET_conversations(convs, msgs)
        IN /\ Len(l) = 2
           /\ l[1].sessionId = convs[2].sessionId
           /\ l[2].sessionId = convs[1].sessionId
           /\ l[1].messageCount = 1 + Cardinality(AssistantTurns(2))
           /\ l[2].messageCount = 2 + Cardinality(AssistantTurns(1))
           /\ Cardinality(AssistantTurns(2)) <= 1
           /\ Cardinality(AssistantTurns(1)) <= 2
           /\ ~configured => l[1].messageCount = 2 /\ l[2].messageCount = 4

\* Every send was answered by the LLM: the counts are 2 and 4.
C9_Witness ==
    /\ TwoThenOne
    /\ configured
    /\ GET_conversations(convs, msgs)[1].messageCount = 2
    /\ GET_conversations(convs, msgs)[2].messageCount = 4

\* C10 (as stated): a POST that has stored an assistant turn and answered has
\* also advanced the conversation's updatedAt past that turn, so that the
\* conversation is ordered by its newest assistant turn in the listing.
C10_AsStated ==
    \A p \in Reqs : Done(p) /\ req[p].aiMsg # 0 =>
        convs[req[p].conversation].updatedAt > msgs[req[p].aiMsg].timestamp

\* C11: for every session the history endpoint returns exactly the rows of
\* that session's conversation, each as stored, ordered so that no
\* timestamp is smaller than the one before it.
C11_History ==
    \A sid \in Tokens(convs) :
        LET r == GET_history(convs, msgs, sid)
            c == FindUnique(convs, sid)
        IN /\ r.status = 200
           /\ r.sessionId = sid
           /\ Len(r.messages) = Cardinality(MessageIdsOf(msgs, c))
           /\ {r.messages[k].id : k \in 1..Len(r.messages)} = MessageIdsOf(msgs, c)
           /\ \A k \in 1..Len(r.messages) :
                 /\ r.messages[k].sender = msgs[r.messages[k].id].sender
                 /\ r.messages[k].text = msgs[r.messages[k].id].text
                 /\ r.messages[k].timestamp = msgs[r.messages[k].id].timestamp
                 /\ k > 1 => r.messages[k].timestamp >= r.messages[k - 1].timestamp

\* The history of one session has two rows while another session has rows
\* of its own.
C11_Witness ==
    \E sid \in Tokens(convs) :
        /\ Len(GET_history(convs, msgs, sid).messages) = 2
        /\ Len(msgs) > 2

\* C12: GET history with a non-empty session id that matches no conversation
\* answers 200 with an empty list and the supplied id, and the store is the
\* same after it as before.
C12_UnknownSession ==
    [][ (reads' # reads /\ reads'.endpoint = "history"
            /\ Truthy(reads'.query) /\ reads'.query \notin Tokens(convs))
        => /\ reads'.answer.status = 200
           /\ reads'.answer.messages = <<>>
           /\ reads'.answer.sessionId = reads'.query
           /\ reads'.answer.error = NoError
           /\ convs' = convs /\ msgs' = msgs ]_vars

\* An unknown session was asked for while the store held another one.
C12_Witness ==
    /\ reads.endpoint = "history"
    /\ Truthy(reads.query) /\ reads.query \notin Tokens(convs)
    /\ reads.answer.status = 200 /\ reads.answer.messages = <<>>
    /\ Len(convs) = 1 /\ Len(msgs) > 0

\* C13: the request generateReply sends has the system prompt first, then
\* the last 10 turns of the history (all of them when it has no more than
\* 10) in their order, then the new utterance as the last turn; no older
\* turn is in it.
C13_Request ==
    gw.called /\ configured =>
        LET r == gw.result.request
            n == Len(gw.history)
            k == IF n <= 10 THEN n ELSE 10
        IN /\ Len(r) = k + 2
           /\ r[1] = [role |-> "system", content |-> SYSTEM_PROMPT]
           /\ r[k + 2] = [role |-> "user", content |-> gw.userMessage]
           /\ \A j \in 1..k : r[1 + j].content = gw.history[n - k + j].text
           /\ \A i \in 1..(n - k) : \A j \in 1..Len(r) :
                 r[j].content # gw.history[i].text

\* A history of twelve turns was cut to its last ten.
C13_Witness ==
    /\ gw.called /\ configured
    /\ Len(gw.history) = 12
    /\ Len(gw.result.request) = 12
    /\ gw.result.request[2].content = gw.history[3].text

\* C14 (as stated): a failed provider call gives an empty reply and the
\* sentence of its category: 401 unauthorized, 429 rate-limited, every 5xx
\* status upstream-unavailable, anything else generic.
C14_AsStated ==
    gw.called /\ configured /\ gw.outcome \notin {"content", "noContent"} =>
        /\ gw.result.reply = EmptyReply
        /\ gw.result.error =
              IF gw.outcome = "401" THEN ErrInvalidKey
              ELSE IF gw.outcome = "429" THEN ErrHighDemand
              ELSE IF gw.outcome \in {"500", "502", "503", "504"} THEN ErrUnavailable
              ELSE ErrGeneric

\* The history turns of the provider request of p, and the history rows
\* they were made from (the last HISTORY_WINDOW of those read).
SentHistory(p) == SubSeq(req[p].llmRequest, 2, Len(req[p].llmRequest) - 1)
SentRows(p) == SliceLast(req[p].history, HISTORY_WINDOW)

\* C16 (as stated): each history turn is forwarded with the role of its
\* stored sender: USER as user, AI as assistant.
C16_AsStated ==
    \A p \in Reqs : req[p].llmRequest # <<>> =>
        /\ Len(SentHistory(p)) = Len(SentRows(p))
        /\ \A k \in 1..Len(SentRows(p)) :
              SentHistory(p)[k].role =
                  IF SentRows(p)[k].sender = "USER" THEN "user" ELSE "assistant"

\* Rows of the conversation of p persisted before the user turn of p.
PriorRows(p) == {i \in MessageIdsOf(msgs, req[p].conversation) : i < req[p].userMsg}

\* C17 (as stated): the provider request of a POST ends with the new
\* utterance, and its history turns are only turns persisted before the
\* user turn of this request, so the new utterance is in it once.
C17_AsStated ==
    \A p \in Reqs : req[p].llmRequest # <<>> =>
        LET r == req[p].llmRequest
        IN /\ r[Len(r)] = [role |-> "user", content |-> req[p].message]
           /\ Len(SentHistory(p)) <= Cardinality(PriorRows(p))
           /\ \A k \in 1..Len(SentHistory(p)) :
                 \E i \in PriorRows(p) : msgs[i].text = SentHistory(p)[k].content

\* C20: a conversation that has messages has a user turn as its earliest
\* message and no more assistant turns than user turns.
C20_Turns ==
    \A c \in 1..Len(convs) : MessageIdsOf(msgs, c) # {} =>
        /\ msgs[OrderByTimestampAsc(msgs, MessageIdsOf(msgs, c))[1]].sender = "USER"
        /\ Cardinality(AssistantTurns(c)) <= Cardinality(UserTurns(c))

\* Two requests wrote their user turns into one conversation before the
\* first assistant turn was written, and one of them has been answered.
C20_Witness ==
    \E c \in 1..Len(convs) :
        LET ids == OrderByTimestampAsc(msgs, MessageIdsOf(msgs, c))
        IN /\ Len(ids) = 3
           /\ msgs[ids[2]].sender = "USER"
           /\ msgs[ids[3]].sender = "AI"

\* C15: when a send fails, its optimistic user message is no longer in the
\* transcript, the error text is shown, and the other messages are the same
\* as before, in the same order.
C15_Rollback ==
    [][ \A s \in net.sends : (s \notin net'.sends /\ widget'.error # NoError) =>
            /\ widget'.error \in SendErrors
            /\ \A k \in 1..Len(widget'.messages) :
                  widget'.messages[k].id # s.userMessage
            /\ LET other(m) == m.id # s.userMessage
               IN widget'.messages = SelectSeq(widget.messages, other)
            /\ Len(widget'.messages) >=  Len(widget.messages) - 1 ]_vars

\* The second send failed: its message is gone, the two messages of the
\* first send are still shown next to the error.
C15_Witness ==
    /\ widget.error # NoError
    /\ widget.sent = 2 /\ net.sends = {}
    /\ Len(widget.messages) = 2
    /\ widget.messages[1].id = <<"msg", 1>> /\ widget.messages[2].sender = "AI"

\* C18 (as stated): every message of the transcript is part of the
\* conversation of the current session id, whatever is still in flight.
C18_AsStated ==
    widget.currentSessionId # Null =>
        \A k \in 1..Len(widget.messages) :
            widget.messages[k].conv = widget.currentSessionId

\* C19: at most one send is in flight, and isLoading is true exactly while
\* one is.
C19_OneSend ==
    /\ Cardinality(net.sends) <= 1
    /\ widget.isLoading <=> net.sends # {}
    /\ widget.isTyping <=> net.sends # {}

\* A second send is in flight after the first one has been answered.
C19_Witness ==
    /\ widget.sent = 2
    /\ Cardinality(net.sends) = 1
    /\ widget.isLoading
    /\ Len(widget.messages) >= 2

\* Number of occurrences of the side effect e in the trace of request p.
Writes(p, e) ==
    Cardinality({k \in 1..Len(req[p].trace) : req[p].trace[k] = e})

\* C21: a POST answered 200 has written one user turn and one assistant
\* turn, of its own and no others, both into one conversation; the assistant
\* turn's text is the returned reply and the returned session id is the
\* token of that conversation.
C21_Success ==
    /\ Accounted
    /\ \A p \in Reqs : Done(p) /\ req[p].status = 200 =>
        LET c == req[p].conversation
            u == req[p].userMsg
            a == req[p].aiMsg
        IN /\ c \in 1..Len(convs)
           /\ u \in 1..Len(msgs) /\ a \in 1..Len(msgs) /\ u < a
           /\ Writes(p, "userWrite") = 1 /\ Writes(p, "assistantWrite") = 1
           /\ msgs[u].conversationId = c /\ msgs[u].sender = "USER"
           /\ msgs[u].text = req[p].message
           /\ msgs[a].conversationId = c /\ msgs[a].sender = "AI"
           /\ msgs[a].text = req[p].body.reply
           /\ req[p].body.sessionId = convs[c].sessionId
           /\ \A q \in Reqs \ {p} :
                 {req[q].userMsg, req[q].aiMsg} \cap {u, a} = {}

\* Two requests in one conversation were both answered 200 with the
\* provider's completion, their four turns interleaved.
C21_Witness ==
    \E p, q \in Reqs :
        /\ p # q /\ Done(p) /\ Done(q)
        /\ req[p].status = 200 /\ req[q].status = 200
        /\ req[p].conversation = req[q].conversation
        /\ req[p].body.reply = Completion
        /\ req[q].userMsg < req[p].aiMsg /\ req[p].aiMsg < req[q].aiMsg
        /\ Len(msgs) = 4

====
